---- MODULE Spec2Model ----
(***************************************************************************)
(* Model of the chat relay in src/chat.go: the room registry of            *)
(* chatServer, the membership map of chatRoom, and subscribeHandler with   *)
(* its two goroutines (the reader goroutine started at line 209 and the    *)
(* handler's own select loop at line 246) communicating over the           *)
(* unbuffered channel subscriber.msgs.                                     *)
(***************************************************************************)
EXTENDS Naturals, Integers, Sequences, FiniteSets, TLC

\* ------------------------------------------------------------------ bounds
MaxSessions == 3
MaxRooms == 2
MaxReads == 2
\* Requests to /subscribe plus frames read, over the whole run.
MaxEvents == 4

\* Requests to /subscribe, numbered in the order they arrive; the uuid of
\* the subscriber a request creates (uuid.NewString, line 186) is identified
\* with the number of the request.
Sessions == 1..MaxSessions
\* Room ids handed out by uuid.NewString at line 131.
RoomIds == 1..MaxRooms
\* A roomId query parameter that names no room.
UnknownRoom == 0
NoRoom == 0
NoSub == 0

RoomNames == {"general"}
DisplayNames == {"", "alice"}

\* Frame bodies a client may send, as sequences of characters.
Frames ==
    { <<"{", "}">>,
      <<"\"", "a", "\"">>,
      <<"a">> }

\* ------------------------------------------------------------ JSON validity
\* json.Unmarshal(data, &json.RawMessage) fails exactly when data is not one
\* JSON value surrounded by optional white space.  The recogniser below is
\* the JSON grammar restricted to the characters  { } [ ] " : , 1 a  and
\* the space; 0 stands for "no parse".
RECURSIVE SkipWs(_, _)
SkipWs(d, i) ==
    IF i <= Len(d) /\ d[i] = " " THEN SkipWs(d, i + 1) ELSE i

RECURSIVE ScanDigits(_, _)
ScanDigits(d, i) ==
    IF i <= Len(d) /\ d[i] = "1" THEN ScanDigits(d, i + 1) ELSE i

\* i is the position after the opening quote; the result is the position
\* after the closing quote.
RECURSIVE ScanString(_, _)
ScanString(d, i) ==
    IF i > Len(d) THEN 0
    ELSE IF d[i] = "\"" THEN i + 1
    ELSE ScanString(d, i + 1)

RECURSIVE ParseValue(_, _)
RECURSIVE ParseElements(_, _)
RECURSIVE ParseMembers(_, _)

\* One value starting at position i (white space already skipped).
ParseValue(d, i) ==
    IF i > Len(d) THEN 0
    ELSE IF d[i] = "1" THEN ScanDigits(d, i)
    ELSE IF d[i] = "\"" THEN ScanString(d, i + 1)
    ELSE IF d[i] = "[" THEN
        LET j == SkipWs(d, i + 1) IN
        IF j <= Len(d) /\ d[j] = "]" THEN j + 1 ELSE ParseElements(d, j)
    ELSE IF d[i] = "{" THEN
        LET j == SkipWs(d, i + 1) IN
        IF j <= Len(d) /\ d[j] = "}" THEN j + 1 ELSE ParseMembers(d, j)
    ELSE 0

\* value ("," value)* "]"
ParseElements(d, i) ==
    LET j == ParseValue(d, i) IN
    IF j = 0 THEN 0
    ELSE LET k == SkipWs(d, j) IN
         IF k > Len(d) THEN 0
         ELSE IF d[k] = "]" THEN k + 1
         ELSE IF d[k] = "," THEN ParseElements(d, SkipWs(d, k + 1))
         ELSE 0

\* string ":" value ("," string ":" value)* "}"
ParseMembers(d, i) ==
    IF i > Len(d) \/ d[i] # "\"" THEN 0
    ELSE LET j == ScanString(d, i + 1) IN
         IF j = 0 THEN 0
         ELSE LET c == SkipWs(d, j) IN
              IF c > Len(d) \/ d[c] # ":" THEN 0
              ELSE LET v == ParseValue(d, SkipWs(d, c + 1)) IN
                   IF v = 0 THEN 0
                   ELSE LET k == SkipWs(d, v) IN
                        IF k > Len(d) THEN 0
                        ELSE IF d[k] = "}" THEN k + 1
                        ELSE IF d[k] = "," THEN ParseMembers(d, SkipWs(d, k + 1))
                        ELSE 0

\* json.Unmarshal(data, &js) == nil
UnmarshalOk(d) ==
    LET j == ParseValue(d, SkipWs(d, 1)) IN
    j # 0 /\ SkipWs(d, j) = Len(d) + 1

\* shouldSendMessage (line 163): true when Unmarshal returns an error.
shouldSendMessage(data) == ~UnmarshalOk(data)

\* ------------------------------------------------------------------- state
VARIABLES
    rooms,        \* chatServer.rooms: room id -> room name
    subscribers,  \* chatRoom.subscribers of each room object: set of subscriber ids
    displayName,  \* subscriber.displayName of each session's subscriber
    roomOf,       \* the room pointer a handler holds (line 172)
    closes,       \* how many times close(s.msgs) ran on the subscriber's channel
    hpc,          \* position of the handler goroutine of each session
    rpc,          \* position of the reader goroutine of each session
    rtext,        \* reader: data of the frame being fanned out
    rsnap,        \* reader: keys of room.subscribers when the frame was accepted
    rvisited,     \* reader: keys the range loop has produced so far
    rtarget,      \* reader: member whose channel the reader is sending on
    rframe,       \* reader: number of frames this reader has fanned out
    reads,        \* number of frames read so far, over all readers
    pending,      \* handler: message received from s.msgs, about to be written
    received,     \* history: messages the handler received from s.msgs
    wire,         \* history: messages written to the websocket
    frameOf,      \* history: for each received message, its sender's rframe
    stopCause,    \* history: which return statement ended the select loop
    crashed       \* "running", or how the process died

vars == <<rooms, subscribers, displayName, roomOf, closes, hpc, rpc, rtext,
          rsnap, rvisited, rtarget, rframe, reads, pending, received, wire,
          frameOf, stopCause, crashed>>

readerVars == <<rpc, rtext, rsnap, rvisited, rtarget, rframe, reads>>
historyVars == <<received, wire, frameOf, stopCause>>

\* ---------------------------------------------------------------- messages
\* MessageData (line 45) with its MessagePayload (line 40).
MessageData(type, senderId, senderDisplayName, text) ==
    [type |-> type, senderId |-> senderId,
     senderDisplayName |-> senderDisplayName, text |-> text]

\* MessageData{Type: "terminate"} (line 215): the payload is the zero value.
TerminateMsg == MessageData("terminate", NoSub, "", <<>>)

\* Lines 220-230: the copy sent to the other members.
TextMsg(s) == MessageData("text", s, displayName[s], rtext[s])

\* Lines 237-240: the copy sent to the sender.
SelfMsg(s) == MessageData("self", s, displayName[s], rtext[s])

NoMsg == MessageData("none", NoSub, "", <<>>)

\* ---------------------------------------------------------------- registry
\* A createRoom that builds a new map instead of inserting into cs.rooms.
createRoomReplacingMap(rs, roomId, name) ==
    [x \in {roomId} |-> name]

\* createRoom (line 82): cs.rooms[roomId] = room.
createRoom(rs, roomId, name) ==
    [x \in DOMAIN rs \cup {roomId} |-> IF x = roomId THEN name ELSE rs[x]]

\* deleteRoom (line 96): delete(cs.rooms, roomId).  No code calls it.
deleteRoom(rs, roomId) ==
    [x \in DOMAIN rs \ {roomId} |-> rs[x]]

\* An addSubscriber that inserts into the map of every room.
addSubscriberEveryRoom(subs, room, s) ==
    [r \in DOMAIN subs |-> subs[r] \cup {s}]

\* addSubscriber (line 102): room.subscribers[s.id] = s.
addSubscriber(subs, room, s) ==
    [subs EXCEPT ![room] = @ \cup {s}]

\* A deleteSubscriber that leaves the map as it is.
deleteSubscriberForgotten(subs, room, subscriberId) == subs

\* deleteSubscriber (line 108): delete(room.subscribers, subscriberId).
deleteSubscriber(subs, room, subscriberId) ==
    [subs EXCEPT ![room] = @ \ {subscriberId}]

\* A range loop over the subscribers of every room.
RangeEveryRoom(s) == UNION {subscribers[r] : r \in RoomIds}

\* The map the range loop at line 225 iterates: the sender's own room.
RangeMap(s) == subscribers[roomOf[s]]

\* A loop body without the test of line 226.
IsRecipientUnchecked(s, member) == TRUE

\* Line 226: the sender is not sent the "text" copy.
IsRecipient(s, member) == s # member

\* ------------------------------------------------------------------- Init
\* The value of crashed while the process runs, and the ways it dies: the
\* goroutine of reader s panics in a send of a message of the given type on
\* the closed channel of subscriber chan, whose handler had returned for the
\* given cause; or a handler calls os.Exit; or the runtime detects an
\* unsynchronised map access.
Alive == [kind |-> "running"]
Panic(s, chan, type, cause) ==
    [kind |-> "panic", sender |-> s, chan |-> chan, type |-> type, cause |-> cause]
Exit(s) == [kind |-> "exit", session |-> s]
\* The Go runtime's "fatal error: concurrent map ..." on the named map.
Fatal(map) == [kind |-> "fatal", map |-> map]

\* The maps, subscribers and goroutines of a process that has just started.
Fresh ==
    /\ rooms = << >>
    /\ subscribers = [r \in RoomIds |-> {}]
    /\ displayName = [s \in Sessions |-> ""]
    /\ roomOf = [s \in Sessions |-> NoRoom]
    /\ closes = [s \in Sessions |-> 0]
    /\ hpc = [s \in Sessions |-> "idle"]
    /\ rpc = [s \in Sessions |-> "none"]
    /\ rtext = [s \in Sessions |-> <<>>]
    /\ rsnap = [s \in Sessions |-> {}]
    /\ rvisited = [s \in Sessions |-> {}]
    /\ rtarget = [s \in Sessions |-> NoSub]
    /\ rframe = [s \in Sessions |-> 0]
    /\ reads = 0
    /\ pending = [s \in Sessions |-> NoMsg]
    /\ received = [s \in Sessions |-> <<>>]
    /\ wire = [s \in Sessions |-> <<>>]
    /\ frameOf = [s \in Sessions |-> <<>>]
    /\ stopCause = [s \in Sessions |-> "none"]

Init == Fresh /\ crashed = Alive

\* The process dies: every goroutine, map and channel is gone with it, and
\* the model keeps the cause of death alone.
Die(how) ==
    /\ crashed' = how
    /\ rooms' = << >>
    /\ subscribers' = [r \in RoomIds |-> {}]
    /\ displayName' = [s \in Sessions |-> ""]
    /\ roomOf' = [s \in Sessions |-> NoRoom]
    /\ closes' = [s \in Sessions |-> 0]
    /\ hpc' = [s \in Sessions |-> "idle"]
    /\ rpc' = [s \in Sessions |-> "none"]
    /\ rtext' = [s \in Sessions |-> <<>>]
    /\ rsnap' = [s \in Sessions |-> {}]
    /\ rvisited' = [s \in Sessions |-> {}]
    /\ rtarget' = [s \in Sessions |-> NoSub]
    /\ rframe' = [s \in Sessions |-> 0]
    /\ reads' = 0
    /\ pending' = [s \in Sessions |-> NoMsg]
    /\ received' = [s \in Sessions |-> <<>>]
    /\ wire' = [s \in Sessions |-> <<>>]
    /\ frameOf' = [s \in Sessions |-> <<>>]
    /\ stopCause' = [s \in Sessions |-> "none"]

Running == crashed = Alive

\* ------------------------------------------------------ registry operations
\* uuid.NewString (lines 131, 186) returns an id never returned before:
\* rooms are numbered in the order they are created, subscribers by the
\* request that creates them.
FreshRoomIds == RoomIds \ DOMAIN rooms
NewRoomId == CHOOSE r \in FreshRoomIds : \A x \in FreshRoomIds : r <= x
IdleSessions == {s \in Sessions : hpc[s] = "idle"}
\* The client events so far: requests to /subscribe and frames read.
Events == Cardinality(Sessions \ IdleSessions) + reads
NewSubscriberId == CHOOSE s \in IdleSessions : \A x \in IdleSessions : s <= x

\* createRoomHandler (line 114): a fresh uuid, then createRoom.
CreateRoom(name) ==
    /\ Running
    /\ FreshRoomIds # {}
    /\ rooms' = createRoom(rooms, NewRoomId, name)
    /\ subscribers' = [subscribers EXCEPT ![NewRoomId] = {}]
    /\ UNCHANGED <<displayName, roomOf, closes, hpc, readerVars, pending,
                   historyVars, crashed>>

\* -------------------------------------------------------- subscribeHandler
\* A handler without the display-name check of lines 179-184.
RejectedUnknownRoomOnly(roomId, name) == roomId \notin DOMAIN rooms

\* Lines 172-184: the two early returns of the handler, the room lookup
\* that fails (404) and the empty displayName query parameter (400).
Rejected(roomId, name) == roomId \notin DOMAIN rooms \/ name = ""

\* Lines 171-184: the room lookup failed (404) or the display name is empty
\* (400); the handler returns before it creates a subscriber.
SubscribeReject(roomId, name) ==
    /\ Running
    /\ Rejected(roomId, name)
    /\ IdleSessions # {} /\ Events < MaxEvents
    /\ hpc' = [hpc EXCEPT ![NewSubscriberId] =
                  IF roomId \notin DOMAIN rooms THEN "NotFound" ELSE "BadRequest"]
    /\ UNCHANGED <<rooms, subscribers, displayName, roomOf, closes,
                   readerVars, pending, historyVars, crashed>>

\* Lines 171-192: the lookup and the name test passed, the subscriber is
\* built under a fresh uuid (lines 185-189) and the handler calls
\* websocket.Accept, where it waits for the handshake; it is not a member of
\* the room yet.
Subscribe(roomId, name) ==
    /\ Running
    /\ ~Rejected(roomId, name)
    /\ IdleSessions # {} /\ Events < MaxEvents
    /\ LET s == NewSubscriberId IN
        /\ displayName' = [displayName EXCEPT ![s] = name]
        /\ roomOf' = [roomOf EXCEPT ![s] = roomId]
        /\ hpc' = [hpc EXCEPT ![s] = "Accept"]
    /\ UNCHANGED <<rooms, subscribers, closes, readerVars, pending,
                   historyVars, crashed>>

\* Lines 192-209 with websocket.Accept succeeding: the subscriber is added
\* to the room, the deferred calls are registered, the reader goroutine is
\* started and the handler reaches its select.
AcceptOk(s) ==
    /\ Running
    /\ hpc[s] = "Accept"
    /\ subscribers' = addSubscriber(subscribers, roomOf[s], s)
    /\ hpc' = [hpc EXCEPT ![s] = "Active"]
    /\ rpc' = [rpc EXCEPT ![s] = "read"]
    /\ UNCHANGED <<rooms, displayName, roomOf, closes, rtext, rsnap,
                   rvisited, rtarget, rframe, reads, pending, historyVars,
                   crashed>>

\* Lines 192-197 with websocket.Accept failing: errorLog.Fatal writes the
\* error and calls os.Exit(1), so lines 198-199 are never reached.
AcceptFail(s) ==
    /\ Running
    /\ hpc[s] = "Accept"
    /\ Die(Exit(s))

\* ---------------------------------------------------------- reader goroutine
\* Lines 211-224: ws.Read returned a frame.  A frame shouldSendMessage
\* accepts starts the range loop over room.subscribers.
ReadFrame(s, data) ==
    /\ Running
    /\ rpc[s] = "read"
    /\ hpc[s] # "Closed"
    /\ reads < MaxReads /\ Events < MaxEvents
    /\ reads' = reads + 1
    /\ IF shouldSendMessage(data)
       THEN /\ rpc' = [rpc EXCEPT ![s] = "range"]
            /\ rtext' = [rtext EXCEPT ![s] = data]
            /\ rsnap' = [rsnap EXCEPT ![s] = RangeMap(s)]
            /\ rvisited' = [rvisited EXCEPT ![s] = {}]
            /\ rframe' = [rframe EXCEPT ![s] = @ + 1]
       ELSE UNCHANGED <<rpc, rtext, rsnap, rvisited, rframe>>
    /\ UNCHANGED <<rooms, subscribers, displayName, roomOf, closes, hpc,
                   rtarget, pending, historyVars, crashed>>

\* Lines 213-215: ws.Read returned an error (the peer went away, the context
\* was cancelled, or the handler closed the websocket).
ReadErr(s) ==
    /\ Running
    /\ rpc[s] = "read"
    /\ rpc' = [rpc EXCEPT ![s] = "sendTerminate"]
    /\ UNCHANGED <<rooms, subscribers, displayName, roomOf, closes, hpc,
                   rtext, rsnap, rvisited, rtarget, rframe, reads, pending,
                   historyVars, crashed>>

\* Line 225: one step of  for _, member := range room.subscribers.  The loop
\* produces an entry of the map as it is now that it has not produced yet;
\* it ends once every entry that was there when it started has been produced
\* or deleted (an entry created during the iteration may be produced or
\* skipped).  An entry line 226 rejects takes no step of its own.
RangeStep(s) ==
    /\ Running
    /\ rpc[s] = "range"
    /\ \/ \E member \in RangeMap(s) \ rvisited[s] :
            /\ IsRecipient(s, member)
            /\ rvisited' = [rvisited EXCEPT ![s] = @ \cup {member}]
            /\ rpc' = [rpc EXCEPT ![s] = "sendText"]
            /\ rtarget' = [rtarget EXCEPT ![s] = member]
            /\ UNCHANGED rsnap
       \/ /\ \A member \in (RangeMap(s) \cap rsnap[s]) \ rvisited[s] :
                ~IsRecipient(s, member)
          /\ rpc' = [rpc EXCEPT ![s] = "sendSelf"]
          /\ rvisited' = [rvisited EXCEPT ![s] = {}]
          /\ rtarget' = [rtarget EXCEPT ![s] = NoSub]
          /\ UNCHANGED rsnap
    /\ UNCHANGED <<rooms, subscribers, displayName, roomOf, closes, hpc,
                   rtext, rframe, reads, pending, historyVars, crashed>>

\* The channel a blocked reader is sending on, and the message it sends.
SendChan(s) == IF rpc[s] = "sendText" THEN rtarget[s] ELSE s
SendMsg(s) ==
    IF rpc[s] = "sendText" THEN TextMsg(s)
    ELSE IF rpc[s] = "sendSelf" THEN SelfMsg(s)
    ELSE TerminateMsg
Sending(s) == rpc[s] \in {"sendText", "sendSelf", "sendTerminate"}

\* A reader that goes back to ws.Read as soon as one copy was handed off.
AfterSendFirstCopy(s) ==
    IF rpc[s] \in {"sendText", "sendSelf"} THEN "read" ELSE "done"

\* Where the reader goes once its send completed (lines 216, 235, 243).
AfterSend(s) ==
    IF rpc[s] = "sendText" THEN "range"
    ELSE IF rpc[s] = "sendSelf" THEN "read"
    ELSE "done"

\* The handler returns from the select loop (lines 269, 272, 279) and the
\* deferred function runs its first statement (line 205),
\* room.deleteSubscriber(s.id).  A return that follows a failed write or a
\* done context is a step of the handler alone, which no other goroutine
\* can tell from the handler not having returned yet, so it is taken
\* together with the delete; the return of line 253 follows a receive that
\* lets the reader go on and is a step of its own (Handoff).
Return(s, cause) ==
    /\ hpc' = [hpc EXCEPT ![s] = "Closing"]
    /\ stopCause' = [stopCause EXCEPT ![s] = cause]
    /\ subscribers' = deleteSubscriber(subscribers, roomOf[s], s)

\* A switch without the case of line 251.
IsTerminateNever(m) == FALSE

\* Line 251: case "terminate".
IsTerminate(m) == m.type = "terminate"

\* A send on the unbuffered channel (lines 215, 233, 237) meets the receive
\* of the select at line 249 in the handler that owns the channel; lines
\* 250-255 then switch on the message type.  On "terminate" the handler
\* returns (line 253); its deferred calls have not run yet and the
\* subscriber is still a member.
Handoff(s) ==
    /\ Running
    /\ Sending(s)
    /\ LET t == SendChan(s)
           m == SendMsg(s) IN
        /\ closes[t] = 0
        /\ hpc[t] = "Active"
        /\ received' = [received EXCEPT ![t] = Append(@, m)]
        /\ frameOf' = [frameOf EXCEPT ![t] =
                          Append(@, IF IsTerminate(m) THEN 0 ELSE rframe[s])]
        /\ IF IsTerminate(m)
           THEN /\ hpc' = [hpc EXCEPT ![t] = "Returned"]
                /\ stopCause' = [stopCause EXCEPT ![t] = "terminate"]
                /\ UNCHANGED pending
           ELSE /\ hpc' = [hpc EXCEPT ![t] = "Write"]
                /\ pending' = [pending EXCEPT ![t] = m]
                /\ UNCHANGED stopCause
    /\ rpc' = [rpc EXCEPT ![s] = AfterSend(s)]
    /\ rtext' = [rtext EXCEPT ![s] = IF rpc[s] = "sendText" THEN @ ELSE <<>>]
    /\ rsnap' = [rsnap EXCEPT ![s] = IF rpc[s] = "sendText" THEN @ ELSE {}]
    /\ UNCHANGED <<rooms, subscribers, displayName, roomOf, closes,
                   rvisited, rtarget, rframe, reads, wire, crashed>>

\* A send on a channel that has been closed panics; the panic is in a
\* goroutine without recover, so the process dies.
SendOnClosed(s) ==
    /\ Running
    /\ Sending(s)
    /\ closes[SendChan(s)] > 0
    /\ Die(Panic(s, SendChan(s), SendMsg(s).type, stopCause[SendChan(s)]))

\* --------------------------------------------------------- handler goroutine
\* A write that puts the message on the transport twice.
TransmitTwice(w, m) == Append(Append(w, m), m)

\* Lines 255-262: the message is marshalled and written to the websocket;
\* w is what the transport has carried so far.  json.Marshal of a
\* MessageData cannot fail, so line 259 is never reached.
Transmit(w, m) == Append(w, m)

\* Line 262: ws.Write succeeded, back to the select.
WriteOk(s) ==
    /\ Running
    /\ hpc[s] = "Write"
    /\ wire' = [wire EXCEPT ![s] = Transmit(@, pending[s])]
    /\ pending' = [pending EXCEPT ![s] = NoMsg]
    /\ hpc' = [hpc EXCEPT ![s] = "Active"]
    /\ UNCHANGED <<rooms, subscribers, displayName, roomOf, closes,
                   readerVars, received, frameOf, stopCause, crashed>>

\* Lines 264-273: ws.Write failed; both branches return.
WriteFail(s) ==
    /\ Running
    /\ hpc[s] = "Write"
    /\ pending' = [pending EXCEPT ![s] = NoMsg]
    /\ Return(s, "write")
    /\ UNCHANGED <<rooms, displayName, roomOf, closes,
                   readerVars, received, wire, frameOf, crashed>>

\* Lines 277-279: the select takes the r.Context().Done() case.
CtxDone(s) ==
    /\ Running
    /\ hpc[s] = "Active"
    /\ Return(s, "cancel")
    /\ UNCHANGED <<rooms, displayName, roomOf, closes,
                   readerVars, pending, received, wire, frameOf, crashed>>

\* Line 205 after the return of line 253: the deferred function runs
\* room.deleteSubscriber(s.id), for which it takes subscriberMutex (lines
\* 109-111).
DeferredDelete(s) ==
    /\ Running
    /\ hpc[s] = "Returned"
    /\ Return(s, stopCause[s])
    /\ UNCHANGED <<rooms, displayName, roomOf, closes, readerVars, pending,
                   received, wire, frameOf, crashed>>

\* Line 206: close(s.msgs).  The websocket is still open.
CloseMsgs(s) ==
    /\ Running
    /\ hpc[s] = "Closing"
    /\ closes' = [closes EXCEPT ![s] = @ + 1]
    /\ hpc' = [hpc EXCEPT ![s] = "WsClosing"]
    /\ UNCHANGED <<rooms, subscribers, displayName, roomOf, readerVars,
                   pending, historyVars, crashed>>

\* Line 202: the deferred ws.Close, the last deferred call to run; after it
\* ws.Read returns errors only.
WsClose(s) ==
    /\ Running
    /\ hpc[s] = "WsClosing"
    /\ hpc' = [hpc EXCEPT ![s] = "Closed"]
    /\ UNCHANGED <<rooms, subscribers, displayName, roomOf, closes,
                   readerVars, pending, historyVars, crashed>>

\* ------------------------------------------------------------- data races
\* The handlers read cs.rooms without roomMutex (lines 155, 172) and the
\* reader goroutine ranges over room.subscribers without subscriberMutex
\* (line 225).  A read that runs while another goroutine is inside a write
\* of the same map is a data race; the runtime may detect it and end the
\* process, and otherwise the read sees the map before or after the write,
\* which is what the other actions model.
\* A goroutine can write room.subscribers of the room of reader s: a member
\* whose handler can return or has returned, or a request that is joining
\* or can join the room.
CanWriteMembers(s) ==
    \/ \E t \in RangeMap(s) : hpc[t] \in {"Active", "Write", "Returned"}
    \/ \E t \in Sessions : hpc[t] = "Accept" /\ roomOf[t] = roomOf[s]
    \/ IdleSessions # {} /\ Events < MaxEvents /\ roomOf[s] \in DOMAIN rooms

MapRace ==
    /\ Running
    /\ \/ /\ FreshRoomIds # {}
          /\ Die(Fatal("rooms"))
       \/ /\ \E s \in Sessions : rpc[s] = "range" /\ CanWriteMembers(s)
          /\ Die(Fatal("subscribers"))

\* ------------------------------------------------------------ specification
Next ==
    \/ \E n \in RoomNames : CreateRoom(n)
    \/ \E r \in RoomIds \cup {UnknownRoom}, n \in DisplayNames : SubscribeReject(r, n)
    \/ \E r \in RoomIds \cup {UnknownRoom}, n \in DisplayNames : Subscribe(r, n)
    \/ \E s \in Sessions : AcceptOk(s)
    \/ \E s \in Sessions : AcceptFail(s)
    \/ \E s \in Sessions, d \in Frames : ReadFrame(s, d)
    \/ \E s \in Sessions : ReadErr(s)
    \/ \E s \in Sessions : RangeStep(s)
    \/ \E s \in Sessions : Handoff(s)
    \/ \E s \in Sessions : SendOnClosed(s)
    \/ \E s \in Sessions : WriteOk(s)
    \/ \E s \in Sessions : WriteFail(s)
    \/ \E s \in Sessions : CtxDone(s)
    \/ \E s \in Sessions : DeferredDelete(s)
    \/ \E s \in Sessions : CloseMsgs(s)
    \/ \E s \in Sessions : WsClose(s)
    \/ MapRace

Spec == Init /\ [][Next]_vars

\* The Go scheduler runs every goroutine that can take a step: a reader in
\* its range loop or in a send, a handler in the handshake, in a write or
\* in its deferred calls.  Requests, frames, transport errors and
\* cancellations come from outside and carry no fairness.
Fairness ==
    \A s \in Sessions :
        /\ WF_vars(AcceptOk(s) \/ AcceptFail(s))
        /\ WF_vars(RangeStep(s))
        /\ WF_vars(Handoff(s))
        /\ WF_vars(SendOnClosed(s))
        /\ WF_vars(WriteOk(s) \/ WriteFail(s))
        /\ WF_vars(DeferredDelete(s))
        /\ WF_vars(CloseMsgs(s))
        /\ WF_vars(WsClose(s))

FairSpec == Spec /\ Fairness

\* ------------------------------------------------------------------ claims
\* The "text" copies of sender s in what m's handler received, and the
\* "self" copies in what s's handler received.
TextCopies(m, s) ==
    Cardinality({i \in 1..Len(received[m]) :
        received[m][i].type = "text" /\ received[m][i].senderId = s})
SelfCopies(s) ==
    Cardinality({i \in 1..Len(received[s]) :
        received[s][i].type = "self" /\ received[s][i].senderId = s})

\* C1: self-echo.  For the first frame accepted from S: once the range loop
\* is over and S's own "self" copy is due, every other subscriber that was a
\* member of the room when the frame was accepted has received exactly one
\* "text" copy of it.
C1_SelfEcho ==
    \A s \in Sessions :
        (rpc[s] = "sendSelf" /\ SelfCopies(s) = 0) =>
            \A m \in rsnap[s] \ {s} : TextCopies(m, s) = 1

\* C2: no subscriber has been handed a "text" message that carries its own
\* id as sender.
C2_NoSelfText ==
    \A s \in Sessions : TextCopies(s, s) = 0

\* C2 witness: a frame of a sender went to another member as "text" and
\* came back to the sender as "self".
C2_Witness ==
    \E s \in Sessions, m \in Sessions :
        /\ s # m
        /\ TextCopies(m, s) = 1
        /\ SelfCopies(s) = 1

\* C3: isolation.  Every message a subscriber was handed, and every message
\* a reader is about to send to a member, comes from a sender that joined
\* the same room.
C3_Isolation ==
    /\ \A m \in Sessions : \A i \in 1..Len(received[m]) :
          received[m][i].type \in {"text", "self"} =>
              roomOf[received[m][i].senderId] = roomOf[m]
    /\ \A s \in Sessions :
          rpc[s] = "sendText" => roomOf[rtarget[s]] = roomOf[s]

\* C3 witness: two rooms have members, and a "text" message went from one
\* member to another in one of them while the other room had a member.
C3_Witness ==
    \E a \in Sessions, b \in Sessions, c \in Sessions :
        /\ a # b
        /\ roomOf[a] = roomOf[b] /\ roomOf[c] # roomOf[a]
        /\ roomOf[c] \in RoomIds
        /\ c \in subscribers[roomOf[c]]
        /\ TextCopies(b, a) = 1

\* C4: membership exclusivity.  A subscriber id is a key of the membership
\* map of at most one room.
C4_Exclusive ==
    \A s \in Sessions :
        Cardinality({r \in RoomIds : s \in subscribers[r]}) <= 1

\* C4 witness: two rooms with a member each.
C4_Witness ==
    \E r1 \in RoomIds, r2 \in RoomIds :
        r1 # r2 /\ subscribers[r1] # {} /\ subscribers[r2] # {}

\* C5: idle reap.  A room that is in the registry with an empty membership
\* map is eventually removed from the registry, unless a subscriber joins it.
C5_IdleReap ==
    \A r \in RoomIds :
        (r \in DOMAIN rooms /\ subscribers[r] = {})
            ~> (r \notin DOMAIN rooms \/ subscribers[r] # {})

\* C6: a room whose membership map holds a subscriber is in the registry.
C6_MemberRoomRegistered ==
    \A r \in RoomIds : subscribers[r] # {} => r \in DOMAIN rooms

\* C6 witness: the room created first has a member while a younger room
\* exists.
C6_Witness ==
    /\ DOMAIN rooms = RoomIds
    /\ subscribers[1] # {}

\* C7: teardown runs exactly once.  A session that reached Closed has had
\* its channel closed exactly once and is a member of no room; a session
\* that has not started its teardown has an open channel, and no channel is
\* closed twice.
C7_TeardownOnce ==
    \A s \in Sessions :
        /\ closes[s] <= 1
        /\ hpc[s] = "Closed" =>
              /\ closes[s] = 1
              /\ \A r \in RoomIds : s \notin subscribers[r]
        /\ hpc[s] \in {"Accept", "Active", "Write", "Returned", "Closing"} =>
              closes[s] = 0
        /\ hpc[s] = "WsClosing" =>
              closes[s] = 1 /\ \A r \in RoomIds : s \notin subscribers[r]

\* C7 witness: three sessions are Closed, one stopped by the terminate
\* sentinel, one by a failed write, one by cancellation.
C7_Witness ==
    \E a \in Sessions, b \in Sessions, c \in Sessions :
        /\ hpc[a] = "Closed" /\ stopCause[a] = "terminate"
        /\ hpc[b] = "Closed" /\ stopCause[b] = "write"
        /\ hpc[c] = "Closed" /\ stopCause[c] = "cancel"

\* C8: when a session is stopped by cancellation while its reader reports a
\* transport error, nothing fails: the reader's send of the terminate
\* sentinel never meets the closed channel.
C8_ConcurrentStopSafe ==
    ~ /\ crashed.kind = "panic"
      /\ crashed.type = "terminate"
      /\ crashed.cause = "cancel"

\* C9: a transport fault in one session leaves the others alone: the fan-out
\* of another member never fails on the channel of a session that a read or
\* write failure has torn down.
C9_FaultContained ==
    ~ /\ crashed.kind = "panic"
      /\ crashed.type = "text"
      /\ crashed.cause \in {"terminate", "write"}

\* C10: a frame that was read starts a fan-out exactly when it is valid JSON;
\* a frame that is not valid JSON changes nothing but the count of frames.
C10_ValidFramesFanOut ==
    [][\A s \in Sessions, d \in Frames :
          ReadFrame(s, d) => (UnmarshalOk(d) <=> rpc'[s] = "range")]_vars

\* C11: the terminate sentinel never reaches a transport.  No written
\* message is of kind "terminate"; a terminate message a handler received
\* has the zero payload, is the last message it received and stopped it;
\* and a reader sends the sentinel on its own subscriber's channel.
C11_TerminateInternal ==
    \A s \in Sessions :
        /\ \A i \in 1..Len(wire[s]) : wire[s][i].type # "terminate"
        /\ pending[s].type # "terminate"
        /\ \A i \in 1..Len(received[s]) :
              received[s][i].type = "terminate" =>
                  /\ received[s][i].senderId = NoSub
                  /\ received[s][i].senderDisplayName = ""
                  /\ received[s][i].text = <<>>
                  /\ i = Len(received[s])
                  /\ hpc[s] \in {"Returned", "Closing", "WsClosing", "Closed"}
                  /\ stopCause[s] = "terminate"
        /\ rpc[s] = "sendTerminate" => SendChan(s) = s

\* C11 witness: a handler that wrote a message to its transport and then
\* received the terminate sentinel.
C11_Witness ==
    \E s \in Sessions :
        /\ Len(wire[s]) >= 1
        /\ Len(received[s]) >= 2
        /\ received[s][Len(received[s])].type = "terminate"

\* C12: for every subscriber, what was written to its transport is a prefix
\* of what its handler received from its channel, in the same order: the
\* writer neither reorders, duplicates nor skips a message, and at most the
\* last received message (the one being written, or the one that stopped
\* the handler) is not on the transport.
C12_WirePrefix ==
    \A s \in Sessions :
        /\ Len(wire[s]) <= Len(received[s])
        /\ Len(received[s]) <= Len(wire[s]) + 1
        /\ \A i \in 1..Len(wire[s]) : wire[s][i] = received[s][i]
        /\ hpc[s] = "Write" =>
              /\ Len(received[s]) = Len(wire[s]) + 1
              /\ pending[s] = received[s][Len(received[s])]

\* C12 witness: a subscriber whose transport carries two messages that two
\* different readers sent on its channel.
C12_Witness ==
    \E s \in Sessions :
        /\ Len(wire[s]) = 2
        /\ wire[s][1].senderId # wire[s][2].senderId

\* C13: a fan-out send never suspends.  Whenever a reader is at the send of
\* a text copy and the member it sends to is stalled in ws.Write, the send
\* can complete.
C13_SendNeverSuspends ==
    \A s \in Sessions :
        (/\ rpc[s] = "sendText"
         /\ rtarget[s] \in Sessions
         /\ hpc[rtarget[s]] = "Write"
         /\ closes[rtarget[s]] = 0) => ENABLED Handoff(s)

\* C14: a subscribe request for an unknown room or with an empty display
\* name is rejected before a subscriber is created.  A rejected request has
\* no subscriber state (no display name, no room, no reader, no place in
\* any membership map), and every subscriber in a membership map has a
\* non-empty display name and a room that is in the registry.
C14_NoSubscriberOfRejected ==
    /\ \A s \in Sessions :
          hpc[s] \in {"NotFound", "BadRequest"} =>
              /\ displayName[s] = ""
              /\ roomOf[s] = NoRoom
              /\ rpc[s] = "none"
              /\ \A r \in RoomIds : s \notin subscribers[r]
    /\ \A r \in RoomIds : \A s \in subscribers[r] :
          /\ displayName[s] # ""
          /\ roomOf[s] = r
          /\ r \in DOMAIN rooms

\* C14: the state part above holds always, and the step that rejects a
\* request leaves the registry and every membership map unchanged.
C14_RejectedBeforeCreate ==
    /\ []C14_NoSubscriberOfRejected
    /\ [][\A roomId \in RoomIds \cup {UnknownRoom}, name \in DisplayNames :
            SubscribeReject(roomId, name) =>
                UNCHANGED <<rooms, subscribers, displayName, roomOf>>]_vars

\* C14 witness: one request was rejected for its room id, one for its empty
\* display name, and a room has a member.
C14_Witness ==
    \E a, b, c \in Sessions :
        /\ hpc[a] = "NotFound"
        /\ hpc[b] = "BadRequest"
        /\ \E r \in RoomIds : c \in subscribers[r]

\* C15: a failed websocket handshake ends that connection attempt only.  On
\* the step where websocket.Accept fails the process keeps running, the
\* registry and every membership map are unchanged, the attempt is Closed
\* without its subscriber in any room, and every other session stays where
\* it was.
C15_HandshakeFailureLocal ==
    [][\A a \in Sessions :
          AcceptFail(a) =>
              /\ crashed' = Alive
              /\ UNCHANGED <<rooms, subscribers>>
              /\ hpc'[a] = "Closed"
              /\ \A s \in Sessions \ {a} :
                    hpc'[s] = hpc[s] /\ rpc'[s] = rpc[s]]_vars

\* C16: after a subscriber's transport read fails, its session eventually
\* reaches Closed with the subscriber removed from every membership map, and
\* a range loop only ever picks a member that is in the map at the moment of
\* the pick, so a fan-out that starts after the removal sends it nothing.
\* The obligation is waived when the process ends for a reason that does
\* not involve this subscriber's channel (a failed handshake, a concurrent
\* map access, a send on another subscriber's closed channel).
C16_ReadFailureCloses ==
    /\ \A a \in Sessions :
          (rpc[a] = "sendTerminate") ~>
              \/ hpc[a] = "Closed" /\ \A r \in RoomIds : a \notin subscribers[r]
              \/ crashed.kind \in {"exit", "fatal"}
              \/ crashed.kind = "panic" /\ crashed.chan # a
    /\ [][\A s \in Sessions :
            (RangeStep(s) /\ rpc'[s] = "sendText") =>
                rtarget'[s] \in subscribers[roomOf[s]]]_vars

\* C17: every access to a shared map is made under the owning lock, so no
\* read of cs.rooms or of a room's subscribers is concurrent with a write of
\* the same map: the Go runtime never aborts the process on a concurrent
\* map access, and while a reader is inside its range loop no goroutine can
\* write the room's membership map.
C17_MapAccessLocked ==
    /\ crashed.kind # "fatal"
    /\ \A s \in Sessions : rpc[s] = "range" => ~CanWriteMembers(s)

\* C18: the recipients of a frame are fixed to the membership at the moment
\* its fan-out starts.  While the fan-out of the first frame of sender s is
\* in progress, every member the range loop has produced, the member it is
\* sending to, and every subscriber that has received the "text" copy was a
\* member of the room when the fan-out started.
C18_RecipientsFixedAtStart ==
    \A s \in Sessions :
        (rpc[s] \in {"range", "sendText", "sendSelf"} /\ SelfCopies(s) = 0) =>
            /\ rvisited[s] \subseteq rsnap[s]
            /\ rpc[s] = "sendText" => rtarget[s] \in rsnap[s]
            /\ \A m \in Sessions : TextCopies(m, s) >= 1 => m \in rsnap[s]

\* C19: every subscriber in a membership map has an open channel.  A
\* subscriber is in the map only between its successful handshake and its
\* handler's deferred deleteSubscriber (the handler is at the select, in a
\* write, or has just returned), and a subscriber whose channel has been
\* closed is in no map.
C19_MemberQueueOpen ==
    /\ \A r \in RoomIds : \A s \in subscribers[r] :
          /\ closes[s] = 0
          /\ hpc[s] \in {"Active", "Write", "Returned"}
    /\ \A s \in Sessions :
          closes[s] > 0 => \A r \in RoomIds : s \notin subscribers[r]

\* C19 witness: one subscriber's channel is closed, another subscriber has
\* been removed while its channel is still open, and a third is a member.
C19_Witness ==
    \E a, b, c \in Sessions :
        /\ closes[a] = 1 /\ hpc[a] = "Closed"
        /\ closes[b] = 0 /\ hpc[b] = "Closing"
        /\ c \in subscribers[roomOf[a]]
        /\ roomOf[b] = roomOf[a]

\* The positions in what t's handler received of the copies of the given
\* type sent by reader s.
CopiesAt(t, s, type) ==
    {i \in 1..Len(received[t]) :
        received[t][i].type = type /\ received[t][i].senderId = s}

\* C20: per-sender order.  At every recipient the "text" copies of one
\* sender arrive in the order the sender's frames were accepted, each frame
\* once, and so do the sender's own "self" copies.  The "self" copy of a
\* frame is handed off only after the range loop of that frame has ended,
\* and a reader is back at ws.Read only after the "self" copy of its last
\* frame has been handed off.
C20_SenderOrder ==
    \A s \in Sessions :
        /\ \A t \in Sessions : \A type \in {"text", "self"} :
              \A i, j \in CopiesAt(t, s, type) :
                  i < j => frameOf[t][i] < frameOf[t][j]
        /\ \A i \in CopiesAt(s, s, "self") :
              ~(rpc[s] \in {"range", "sendText"} /\ rframe[s] = frameOf[s][i])
        /\ (rpc[s] = "read" /\ rframe[s] > 0) =>
              \E i \in CopiesAt(s, s, "self") : frameOf[s][i] = rframe[s]

\* C20 witness: a subscriber received the "text" copies of two frames of
\* the same sender, and the sender both of its "self" copies.
C20_Witness ==
    \E s, t \in Sessions :
        /\ s # t
        /\ Cardinality(CopiesAt(t, s, "text")) = 2
        /\ Cardinality(CopiesAt(s, s, "self")) = 2

====
